---- MODULE Spec2Model ----
(***************************************************************************)
(* RajanMusicBot (src/main.py): the resolver job pool, the artifact        *)
(* locator and the voice-chat playback queue, as a state machine.          *)
(*                                                                         *)
(* The handlers are coroutines on one asyncio event loop: a handler runs   *)
(* without interruption from one await to the next, so every action below  *)
(* is the code of one handler between two consecutive suspension points.   *)
(* Blocking resolver work runs on the thread pool POOL (3 workers).        *)
(*                                                                         *)
(* Awaits on the chat client that sit between two statements touching no   *)
(* shared state (the first "Searching..." reply of a handler) are folded   *)
(* into the step before them; the awaits that separate accesses to the     *)
(* shared queue/current (the "Queued." edit of play_cmd, the transport     *)
(* calls, the pool future, the last reply of skip/stop) are kept.          *)
(***************************************************************************)
EXTENDS Naturals, Sequences, FiniteSets

\* ---------------------------------------------------------------- bounds
MaxHandlers == 2   \* queue handlers (play, skip, stop) in flight at once
MaxJobs     == 4   \* download/search handlers in flight at once
MaxQueue    == 2   \* paths appended and not yet popped

\* ------------------------------------------------------ program constants
POOL_SIZE == 3     \* ThreadPoolExecutor(max_workers=3)

Tasks  == 1..MaxJobs       \* slots for handler invocations
QTasks == 1..MaxHandlers   \* the slots the queue handlers use

Dest == {1, 2}             \* message.chat.id of the chats commands come from

\* Python's None, for a path-valued variable (paths are tuples of tokens).
None == <<>>

DOWNLOADS_DIR == "./downloads"

\* Resolver ids; one is a proper prefix of the other.
Ids == {<<"x">>, <<"x", "y">>}

\* outtmpl "%(id)s.%(ext)s" after the mp3 post-processor: <id>.mp3
FileName(vid) == vid \o <<".", "mp3">>

FileNames == {FileName(i) : i \in Ids}

\* os.path.join(DOWNLOADS_DIR, fname)
JoinDir(fname) == <<DOWNLOADS_DIR, "/">> \o fname

Paths == {JoinDir(f) : f \in FileNames}

Silence == JoinDir(<<"silence", ".", "mp3">>)

\* str.startswith
StartsWith(s, p) == Len(p) <= Len(s) /\ SubSeq(s, 1, Len(p)) = p

\* find_file_by_id: the paths it can return for vid over the directory
\* listing dir (os.listdir gives the entries in arbitrary order, the first
\* entry that starts with vid wins); the empty set stands for "return None".
find_file_by_id(vid, dir) == {JoinDir(f) : f \in {g \in dir : StartsWith(g, vid)}}

VARIABLES
  queue,      \* global `queue`: list of file paths, head first
  owner,      \* (history) for each entry of queue, the chat whose /play put it
  current,    \* global `current`: the path being played, or None
  files,      \* names of the files in DOWNLOADS_DIR
  stream,     \* transport: what each chat's call is streaming (None: nothing)
  tasks,      \* handler invocations: one record per slot
  poolQueue,  \* POOL's work queue: slots whose job waits for a worker
  running     \* slots whose job runs on a POOL worker

vars == <<queue, owner, current, files, stream, tasks, poolQueue, running>>

NoPre == [queue |-> <<>>, current |-> None]

\* kind  : the command; pc: where the coroutine is suspended
\* res   : what the job returned / which exception the handler caught
\* vid   : entry.get("id");  src: the transport call's source
\* alone : (history) no other queue handler ran since this one started
\* pre   : (history) queue and current when it started, kept while alone
\* path  : (history) the file_path it appended, kept while alone
\* query : the command's argument text; target: what run_yt was called with
FreeTask == [kind |-> "none", chat |-> 0, pc |-> "free", res |-> "", vid |-> None,
             path |-> None, src |-> None, alone |-> FALSE, pre |-> NoPre,
             query |-> None, target |-> None]

Busy(t) == tasks[t].pc # "free"

Init ==
  /\ queue = <<>>
  /\ owner = <<>>
  /\ current = None
  /\ files = {}
  /\ stream = [d \in Dest |-> None]
  /\ tasks = [t \in Tasks |-> FreeTask]
  /\ poolQueue = <<>>
  /\ running = {}

\* ------------------------------------------------------------ bookkeeping
QueueKinds == {"play", "skip", "stop"}

\* Slot t starts handler record r.  A queue handler that starts while another
\* queue handler is in flight overlaps it: neither has run alone.
Begin(t, r) ==
  LET others == {u \in Tasks \ {t} : tasks[u].kind \in QueueKinds}
      solo   == r.kind \in QueueKinds /\ others = {}
  IN [u \in Tasks |->
        IF u = t
          THEN [r EXCEPT !.alone = solo,
                         !.pre = IF solo THEN [queue |-> queue, current |-> current]
                                 ELSE NoPre]
        ELSE IF r.kind \in QueueKinds /\ u \in others
          THEN [tasks[u] EXCEPT !.alone = FALSE, !.pre = NoPre, !.path = None]
        ELSE tasks[u]]

\* Appends not yet made by play handlers still waiting for their job.
PendingAppends ==
  Cardinality({u \in Tasks : tasks[u].kind = "play"
                             /\ tasks[u].pc \in {"job_queued", "job_running", "job_done"}})

\* ---------------------------------------------------------- the job pool
\* loop.run_in_executor(POOL, _run): the work item joins POOL's queue; the
\* call returns a future at once.
Submit(pq, t) == Append(pq, t)

\* A worker thread exists for the next item only while fewer than
\* max_workers items are running.
\* Faulty variant: no limit on the number of workers
WorkerFree_NoLimit(r) == TRUE

WorkerFree(r) == Cardinality(r) < POOL_SIZE

\* A free worker takes the oldest waiting job.
JobStart ==
  /\ poolQueue # <<>>
  /\ WorkerFree(running)
  /\ running' = running \cup {Head(poolQueue)}
  /\ poolQueue' = Tail(poolQueue)
  /\ tasks' = [tasks EXCEPT ![Head(poolQueue)].pc = "job_running"]
  /\ UNCHANGED <<queue, owner, current, files, stream>>

\* _run raises (extraction failed): the future carries the exception.
JobFail(t) ==
  /\ t \in running
  /\ running' = running \ {t}
  /\ tasks' = [tasks EXCEPT ![t].pc = "job_done", ![t].res = "ExtractionError"]
  /\ UNCHANGED <<queue, owner, current, files, stream, poolQueue>>

\* ydl.extract_info returns a result with no entries.
JobEmpty(t) ==
  /\ t \in running
  /\ running' = running \ {t}
  /\ tasks' = [tasks EXCEPT ![t].pc = "job_done", ![t].res = "empty"]
  /\ UNCHANGED <<queue, owner, current, files, stream, poolQueue>>

\* The commands that download with YDL_OPTS_VIDEO.
VideoKinds == {"video", "tiktok"}

\* outtmpl "%(id)s.%(ext)s": <id>.mp3 with YDL_OPTS_AUDIO (the mp3
\* post-processor), the container's extension with YDL_OPTS_VIDEO.
OutName(kind, vid) == IF kind \in VideoKinds THEN vid \o <<".", "webm">>
                      ELSE FileName(vid)

\* ydl.extract_info returns entry vid; with download=True the file
\* <vid>.<ext> is written, unless the download left nothing behind.
JobOk(t, vid, written) ==
  /\ t \in running
  /\ tasks[t].kind # "search"
  /\ running' = running \ {t}
  /\ files' = IF written THEN files \cup {OutName(tasks[t].kind, vid)} ELSE files
  /\ tasks' = [tasks EXCEPT ![t].pc = "job_done", ![t].res = "ok", ![t].vid = vid]
  /\ UNCHANGED <<queue, owner, current, stream, poolQueue>>

\* ------------------------------------------------------ the playback queue
\* Faulty variant: the emptiness test left out
QueueEmpty_Never(q) == FALSE

\* `if not queue` (_play_next)
QueueEmpty(q) == q = <<>>

\* Faulty variant: the idle test left out: every /play starts its track
IsIdle_Always(cur) == TRUE

\* `current is None` (play_cmd)
IsIdle(cur) == cur = None

\* Faulty variant: queue.insert(0, file_path)
Enqueue_Front(q, p) == <<p>> \o q

\* queue.append(file_path)
Enqueue(q, p) == Append(q, p)

\* Faulty variant: src = queue[0] instead of queue.pop(0)
PlayNextQueue_Peek(q) == q

\* _play_next up to its await, as the caller sees it.  r is the caller's
\* record, after what the caller becomes when _play_next returns without
\* a transport call.  list.pop(0) raises IndexError on an empty list; the
\* callers catch it and report.
PlayNextQueue(q) == IF QueueEmpty(q) \/ q = <<>> THEN q ELSE Tail(q)

\* Faulty variant: `global current` left out: the assignments bind a local
PlayNextCurrent_Local(q, cur) == cur

PlayNextCurrent(q, cur) ==
  IF QueueEmpty(q) THEN None ELSE IF q = <<>> THEN cur ELSE Head(q)

PlayNextTask(q, r, after) ==
  IF QueueEmpty(q) THEN after
  ELSE IF q = <<>> THEN [r EXCEPT !.pc = "reply", !.res = "IndexError"]
  ELSE [r EXCEPT !.pc = "stream", !.src = Head(q)]

\* (history) owner follows queue: the head's owner goes when the head is popped.
PlayNextOwner == IF PlayNextQueue(queue) = queue THEN owner ELSE Tail(owner)

\* stop_cmd's effect on the two globals: queue.clear(), current untouched.
StopQueue(q) == <<>>

StopCurrent(cur) == cur

\* /play with an empty query: the usage message, nothing else.
PlayUsage(t, d) ==
  /\ ~Busy(t)
  /\ tasks' = Begin(t, [FreeTask EXCEPT !.kind = "play", !.chat = d,
                                        !.pc = "reply", !.res = "usage"])
  /\ UNCHANGED <<queue, owner, current, files, stream, poolQueue, running>>

\* /play <query>: "Searching & queuing..." is sent and the resolver job is
\* submitted to POOL; the handler awaits the future.
PlayStart(t, d) ==
  /\ ~Busy(t)
  /\ Len(queue) + PendingAppends < MaxQueue
  /\ tasks' = Begin(t, [FreeTask EXCEPT !.kind = "play", !.chat = d,
                                        !.pc = "job_queued"])
  /\ poolQueue' = Submit(poolQueue, t)
  /\ UNCHANGED <<queue, owner, current, files, stream, running>>

\* The future raised, or info["entries"][0] raised IndexError: the except
\* branch edits the message to the error.
PlayJobError(t) ==
  /\ tasks[t].kind = "play" /\ tasks[t].pc = "job_done"
  /\ tasks[t].res # "ok"
  /\ tasks' = [tasks EXCEPT ![t].pc = "reply",
                 ![t].res = IF tasks[t].res = "empty" THEN "IndexError" ELSE tasks[t].res]
  /\ UNCHANGED <<queue, owner, current, files, stream, poolQueue, running>>

\* Faulty variant: queue.append(file_path) before the `if not file_path` test
PlayNoFile_Appends(t) ==
  /\ tasks[t].kind = "play" /\ tasks[t].pc = "job_done"
  /\ tasks[t].res = "ok"
  /\ find_file_by_id(tasks[t].vid, files) = {}
  /\ queue' = Enqueue(queue, None)
  /\ owner' = Append(owner, tasks[t].chat)
  /\ tasks' = [tasks EXCEPT ![t].pc = "reply", ![t].res = "download_failed"]
  /\ UNCHANGED <<current, files, stream, poolQueue, running>>

\* find_file_by_id(vid) is None: "Download failed."
PlayNoFile(t) ==
  /\ tasks[t].kind = "play" /\ tasks[t].pc = "job_done"
  /\ tasks[t].res = "ok"
  /\ find_file_by_id(tasks[t].vid, files) = {}
  /\ tasks' = [tasks EXCEPT ![t].pc = "reply", ![t].res = "download_failed"]
  /\ UNCHANGED <<queue, owner, current, files, stream, poolQueue, running>>

\* The file is found: queue.append(file_path), then await m.edit("Queued.").
PlayAppend(t) ==
  /\ tasks[t].kind = "play" /\ tasks[t].pc = "job_done"
  /\ tasks[t].res = "ok"
  /\ \E fp \in find_file_by_id(tasks[t].vid, files) :
       /\ queue' = Enqueue(queue, fp)
       /\ owner' = Append(owner, tasks[t].chat)
       /\ tasks' = [tasks EXCEPT ![t].pc = "edit", ![t].vid = None,
                                 ![t].path = IF tasks[t].alone THEN fp ELSE None]
  /\ UNCHANGED <<current, files, stream, poolQueue, running>>

\* The edit returns: `if current is None: await _play_next(chat_id)`.
\* There is no await between the test and _play_next's pop.
PlayEdited(t) ==
  /\ tasks[t].kind = "play" /\ tasks[t].pc = "edit"
  /\ IF IsIdle(current)
       THEN /\ queue' = PlayNextQueue(queue)
            /\ owner' = PlayNextOwner
            /\ current' = PlayNextCurrent(queue, current)
            /\ tasks' = [tasks EXCEPT ![t] = PlayNextTask(queue, tasks[t], FreeTask)]
       ELSE /\ tasks' = [tasks EXCEPT ![t] = FreeTask]
            /\ UNCHANGED <<queue, owner, current>>
  /\ UNCHANGED <<files, stream, poolQueue, running>>

\* The edit raises: the path stays appended, the except branch reports.
PlayEditFail(t) ==
  /\ tasks[t].kind = "play" /\ tasks[t].pc = "edit"
  /\ tasks' = [tasks EXCEPT ![t].pc = "reply", ![t].res = "ChatError"]
  /\ UNCHANGED <<queue, owner, current, files, stream, poolQueue, running>>

\* /skip: _play_next, then (when it returns) "Skipped.".
SkipStart(t, d) ==
  /\ ~Busy(t)
  /\ LET r == [FreeTask EXCEPT !.kind = "skip", !.chat = d]
     IN tasks' = Begin(t, PlayNextTask(queue, r, [r EXCEPT !.pc = "reply", !.res = "ok"]))
  /\ queue' = PlayNextQueue(queue)
  /\ owner' = PlayNextOwner
  /\ current' = PlayNextCurrent(queue, current)
  /\ UNCHANGED <<files, stream, poolQueue, running>>

\* /stop: queue.clear(), then change_stream to the silence file.
StopStart(t, d) ==
  /\ ~Busy(t)
  /\ tasks' = Begin(t, [FreeTask EXCEPT !.kind = "stop", !.chat = d,
                                        !.pc = "stream", !.src = Silence])
  /\ queue' = StopQueue(queue)
  /\ owner' = <<>>
  /\ current' = StopCurrent(current)
  /\ UNCHANGED <<files, stream, poolQueue, running>>

\* vc_client.change_stream(chat_id, AudioPiped(src)) returns: the call of
\* this chat now streams src.  play_cmd then returns; skip_cmd and stop_cmd
\* send their last message.
TransportOk(t) ==
  /\ tasks[t].pc = "stream"
  /\ stream' = [stream EXCEPT ![tasks[t].chat] = tasks[t].src]
  /\ tasks' = [tasks EXCEPT ![t] = IF tasks[t].kind = "play" THEN FreeTask
                                   ELSE [tasks[t] EXCEPT !.pc = "reply", !.res = "ok"]]
  /\ UNCHANGED <<queue, owner, current, files, poolQueue, running>>

\* change_stream raises: the handler's except branch reports the error.
TransportFail(t) ==
  /\ tasks[t].pc = "stream"
  /\ tasks' = [tasks EXCEPT ![t].pc = "reply", ![t].res = "TransportError"]
  /\ UNCHANGED <<queue, owner, current, files, stream, poolQueue, running>>

\* The handler's last message is sent and the handler returns.
Replied(t) ==
  /\ tasks[t].pc = "reply"
  /\ tasks' = [tasks EXCEPT ![t] = FreeTask]
  /\ UNCHANGED <<queue, owner, current, files, stream, poolQueue, running>>

\* The file piped into chat d's call has been played to its end: the call
\* streams nothing more.  The transport raises a stream-end update; the
\* program registers no handler for it, so no code runs.
TrackEnd(d) ==
  /\ stream[d] # None
  /\ stream' = [stream EXCEPT ![d] = None]
  /\ UNCHANGED <<queue, owner, current, files, tasks, poolQueue, running>>

\* ------------------------------------------------------ /pause, /resume
\* Faulty variant: the command streams the silence file
NotImplemented_Streams(kind, d) ==
  [FreeTask EXCEPT !.kind = kind, !.chat = d, !.pc = "stream", !.src = Silence]

\* pause_cmd and resume_cmd: one reply_text, nothing else.
NotImplemented(kind, d) ==
  [FreeTask EXCEPT !.kind = kind, !.chat = d, !.pc = "reply", !.res = "not_implemented"]

PauseCmd(t, d) ==
  /\ ~Busy(t)
  /\ tasks' = Begin(t, NotImplemented("pause", d))
  /\ UNCHANGED <<queue, owner, current, files, stream, poolQueue, running>>

ResumeCmd(t, d) ==
  /\ ~Busy(t)
  /\ tasks' = Begin(t, NotImplemented("resume", d))
  /\ UNCHANGED <<queue, owner, current, files, stream, poolQueue, running>>

\* ------------------------------------------------------------- /search
\* /search with an empty query: the usage message.
SearchUsage(t, d) ==
  /\ ~Busy(t)
  /\ tasks' = Begin(t, [FreeTask EXCEPT !.kind = "search", !.chat = d,
                                        !.pc = "reply", !.res = "usage"])
  /\ UNCHANGED <<queue, owner, current, files, stream, poolQueue, running>>

\* /search <query>: "Searching..." is sent, search_youtube submits its job
\* to POOL and the handler awaits the future.
SearchStart(t, d) ==
  /\ ~Busy(t)
  /\ tasks' = Begin(t, [FreeTask EXCEPT !.kind = "search", !.chat = d,
                                        !.pc = "job_queued"])
  /\ poolQueue' = Submit(poolQueue, t)
  /\ UNCHANGED <<queue, owner, current, files, stream, running>>

\* search_youtube's job returns a non-empty list of entries; download=False,
\* so nothing is written.
SearchJobOk(t) ==
  /\ t \in running
  /\ tasks[t].kind = "search"
  /\ running' = running \ {t}
  /\ tasks' = [tasks EXCEPT ![t].pc = "job_done", ![t].res = "ok"]
  /\ UNCHANGED <<queue, owner, current, files, stream, poolQueue>>

\* The future is done: the listing (possibly empty) or the error is put
\* into the message with m.edit.
SearchResult(t) ==
  /\ tasks[t].kind = "search" /\ tasks[t].pc = "job_done"
  /\ tasks' = [tasks EXCEPT ![t].pc = "reply",
                 ![t].res = IF tasks[t].res = "ok" THEN "listing" ELSE tasks[t].res]
  /\ UNCHANGED <<queue, owner, current, files, stream, poolQueue, running>>

\* --------------------------------- /song, /video, /yt, /tiktok and /reels
\* The text after the command (" ".join(message.command[1:])), as a tuple
\* of tokens: a link, and a free-text name.  The empty text is None.
Queries == {<<"http", "://v/1">>, <<"name">>}

\* The first argument of run_yt in each handler.
Target(kind, q) ==
  CASE kind = "song"  -> <<"ytsearch:">> \o q
    [] kind = "video" -> IF StartsWith(q, <<"http">>) THEN q ELSE <<"ytsearch:">> \o q
    [] kind = "play"  -> <<"ytsearch:">> \o q
    [] OTHER          -> q

\* song_cmd, video_cmd, yt_cmd, tiktok_reels_cmd: one shape, four commands.
DlKinds == {"song", "video", "yt", "tiktok"}

\* The command with an empty argument: the usage message.
DlUsage(t, d, kind) ==
  /\ ~Busy(t)
  /\ tasks' = Begin(t, [FreeTask EXCEPT !.kind = kind, !.chat = d,
                                        !.pc = "reply", !.res = "usage"])
  /\ UNCHANGED <<queue, owner, current, files, stream, poolQueue, running>>

\* The command with argument q: the first message is sent, run_yt submits
\* its job to POOL and the handler awaits the future.
DlStart(t, d, kind, q) ==
  /\ ~Busy(t)
  /\ tasks' = Begin(t, [FreeTask EXCEPT !.kind = kind, !.chat = d,
                                        !.pc = "job_queued", !.query = q,
                                        !.target = Target(kind, q)])
  /\ poolQueue' = Submit(poolQueue, t)
  /\ UNCHANGED <<queue, owner, current, files, stream, running>>

\* play_cmd as PlayStart, with its argument q kept in the record.
PlayStartQ(t, d, q) ==
  /\ ~Busy(t)
  /\ Len(queue) + PendingAppends < MaxQueue
  /\ tasks' = Begin(t, [FreeTask EXCEPT !.kind = "play", !.chat = d,
                                        !.pc = "job_queued", !.query = q,
                                        !.target = Target("play", q)])
  /\ poolQueue' = Submit(poolQueue, t)
  /\ UNCHANGED <<queue, owner, current, files, stream, running>>

\* The future raised, or info["entries"][0] raised IndexError: the except
\* branch edits the message to the error.
DlJobError(t) ==
  /\ tasks[t].kind \in DlKinds /\ tasks[t].pc = "job_done"
  /\ tasks[t].res # "ok"
  /\ tasks' = [tasks EXCEPT ![t].pc = "reply",
                 ![t].res = IF tasks[t].res = "empty" THEN "IndexError" ELSE tasks[t].res]
  /\ UNCHANGED <<queue, owner, current, files, stream, poolQueue, running>>

\* find_file_by_id(vid) is None: "Download failed."
DlNoFile(t) ==
  /\ tasks[t].kind \in DlKinds /\ tasks[t].pc = "job_done"
  /\ tasks[t].res = "ok"
  /\ find_file_by_id(tasks[t].vid, files) = {}
  /\ tasks' = [tasks EXCEPT ![t].pc = "reply", ![t].res = "download_failed"]
  /\ UNCHANGED <<queue, owner, current, files, stream, poolQueue, running>>

\* The file is found: msg.edit("Uploading..."), reply_audio / reply_video
\* and msg.delete() are awaited in turn.
DlFound(t) ==
  /\ tasks[t].kind \in DlKinds /\ tasks[t].pc = "job_done"
  /\ tasks[t].res = "ok"
  /\ \E fp \in find_file_by_id(tasks[t].vid, files) :
       tasks' = [tasks EXCEPT ![t].pc = "upload", ![t].vid = None, ![t].path = fp]
  /\ UNCHANGED <<queue, owner, current, files, stream, poolQueue, running>>

\* The three awaits return: the handler returns.
DlUploaded(t) ==
  /\ tasks[t].pc = "upload"
  /\ tasks' = [tasks EXCEPT ![t] = FreeTask]
  /\ UNCHANGED <<queue, owner, current, files, stream, poolQueue, running>>

\* One of them raises (the delivery failed): the except branch reports.
DlUploadFail(t) ==
  /\ tasks[t].pc = "upload"
  /\ tasks' = [tasks EXCEPT ![t].pc = "reply", ![t].res = "ChatError"]
  /\ UNCHANGED <<queue, owner, current, files, stream, poolQueue, running>>

\* The last messages a handler awaits inside its `try`: "Download failed.",
\* the /search listing, "Skipped." and "Stopped playback.".  The usage
\* message and the except branch's own message are awaited outside it.
InTry(r) == r.res \in {"download_failed", "listing", "ok"}

\* The handler's last message raises in the chat client.  Inside the `try`
\* the except branch takes over and sends the error; the usage reply and
\* the except branch's own message have no handler around them: the
\* exception leaves the coroutine.
ReplyFail(t) ==
  /\ tasks[t].pc = "reply"
  /\ tasks' = [tasks EXCEPT ![t].pc = IF InTry(tasks[t]) THEN "reply" ELSE "raised",
                            ![t].res = IF InTry(tasks[t]) THEN "ChatError" ELSE tasks[t].res]
  /\ UNCHANGED <<queue, owner, current, files, stream, poolQueue, running>>

\* The exception reaches the dispatcher that ran the handler; the
\* invocation is over.
Unhandled(t) ==
  /\ tasks[t].pc = "raised"
  /\ tasks' = [tasks EXCEPT ![t] = FreeTask]
  /\ UNCHANGED <<queue, owner, current, files, stream, poolQueue, running>>

\* One chat, MaxHandlers queue handlers interleaving at their awaits.
Next ==
  \/ \E t \in QTasks : PlayUsage(t, 1)
  \/ \E t \in QTasks : PlayStart(t, 1)
  \/ \E t \in QTasks : SkipStart(t, 1)
  \/ \E t \in QTasks : StopStart(t, 1)
  \/ JobStart
  \/ \E t \in QTasks : JobFail(t)
  \/ \E t \in QTasks : JobEmpty(t)
  \/ \E t \in QTasks, vid \in Ids, written \in BOOLEAN : JobOk(t, vid, written)
  \/ \E t \in QTasks : PlayJobError(t)
  \/ \E t \in QTasks : PlayNoFile(t)
  \/ \E t \in QTasks : PlayAppend(t)
  \/ \E t \in QTasks : PlayEdited(t)
  \/ \E t \in QTasks : PlayEditFail(t)
  \/ \E t \in QTasks : TransportOk(t)
  \/ \E t \in QTasks : TransportFail(t)
  \/ \E t \in QTasks : Replied(t)

Spec == Init /\ [][Next]_vars

\* The same, with /pause and /resume among the commands.
NextPause ==
  \/ Next
  \/ \E t \in QTasks : PauseCmd(t, 1)
  \/ \E t \in QTasks : ResumeCmd(t, 1)

SpecPause == Init /\ [][NextPause]_vars

\* /play only, tracks playing to their end, nothing failing in the
\* transport or the chat client: first the steps the program and the
\* transport take by themselves, then the commands.
ProgramStepAuto ==
  \/ JobStart
  \/ \E t \in QTasks : JobFail(t)
  \/ \E t \in QTasks : JobEmpty(t)
  \/ \E t \in QTasks, vid \in Ids, written \in BOOLEAN : JobOk(t, vid, written)
  \/ \E t \in QTasks : PlayJobError(t)
  \/ \E t \in QTasks : PlayNoFile(t)
  \/ \E t \in QTasks : PlayAppend(t)
  \/ \E t \in QTasks : PlayEdited(t)
  \/ \E t \in QTasks : TransportOk(t)
  \/ \E t \in QTasks : Replied(t)
  \/ TrackEnd(1)

NextAuto ==
  \/ \E t \in QTasks : PlayUsage(t, 1)
  \/ \E t \in QTasks : PlayStart(t, 1)
  \/ ProgramStepAuto

SpecAuto == Init /\ [][NextAuto]_vars

\* Two chats, one queue handler at a time.
NextDest ==
  \/ \E d \in Dest : PlayUsage(1, d)
  \/ \E d \in Dest : PlayStart(1, d)
  \/ \E d \in Dest : SkipStart(1, d)
  \/ \E d \in Dest : StopStart(1, d)
  \/ JobStart
  \/ JobFail(1)
  \/ JobEmpty(1)
  \/ \E vid \in Ids, written \in BOOLEAN : JobOk(1, vid, written)
  \/ PlayJobError(1)
  \/ PlayNoFile(1)
  \/ PlayAppend(1)
  \/ PlayEdited(1)
  \/ PlayEditFail(1)
  \/ TransportOk(1)
  \/ TransportFail(1)
  \/ Replied(1)

SpecDest == Init /\ [][NextDest]_vars

\* MaxJobs /search handlers at once: more jobs than POOL has workers.
NextPool ==
  \/ \E t \in Tasks : SearchUsage(t, 1)
  \/ \E t \in Tasks : SearchStart(t, 1)
  \/ JobStart
  \/ \E t \in Tasks : JobFail(t)
  \/ \E t \in Tasks : JobEmpty(t)
  \/ \E t \in Tasks : SearchJobOk(t)
  \/ \E t \in Tasks : SearchResult(t)
  \/ \E t \in Tasks : Replied(t)

SpecPool == Init /\ [][NextPool]_vars

\* Every orchestrator, one invocation at a time, with the chat client
\* failing at any message.
NextOrch ==
  \/ SearchUsage(1, 1)
  \/ SearchStart(1, 1)
  \/ \E k \in DlKinds : DlUsage(1, 1, k)
  \/ \E k \in DlKinds, q \in Queries : DlStart(1, 1, k, q)
  \/ PlayUsage(1, 1)
  \/ \E q \in Queries : PlayStartQ(1, 1, q)
  \/ JobStart
  \/ JobFail(1)
  \/ JobEmpty(1)
  \/ \E vid \in Ids, written \in BOOLEAN : JobOk(1, vid, written)
  \/ SearchJobOk(1)
  \/ SearchResult(1)
  \/ DlJobError(1)
  \/ DlNoFile(1)
  \/ DlFound(1)
  \/ DlUploaded(1)
  \/ DlUploadFail(1)
  \/ PlayJobError(1)
  \/ PlayNoFile(1)
  \/ PlayAppend(1)
  \/ PlayEdited(1)
  \/ PlayEditFail(1)
  \/ TransportOk(1)
  \/ TransportFail(1)
  \/ Replied(1)
  \/ ReplyFail(1)
  \/ Unhandled(1)

SpecOrch == Init /\ [][NextOrch]_vars

\* ================================================================ claims
\* Handler t returns in this step without having caught an exception.
ReturnsOk(t) ==
  /\ tasks'[t].pc = "free"
  /\ \/ tasks[t].kind = "play" /\ tasks[t].pc \in {"edit", "stream"}
     \/ tasks[t].kind \in {"skip", "stop"} /\ tasks[t].pc = "reply" /\ tasks[t].res = "ok"

\* Handler t issues a transport call in this step.
Issues(t) == tasks[t].pc # "stream" /\ tasks'[t].pc = "stream"

\* No queue handler is in progress.
Quiescent == \A t \in Tasks : tasks[t].kind \notin QueueKinds

\* C1: from Idle and with no transport failure, handlers run one after the
\* other: /play A leaves current = A, pending empty; a following /play B
\* leaves current = A, pending = <<B>>; a following /skip leaves current = B,
\* pending empty; a further /skip leaves current and pending empty.  Stated
\* for each handler that ran alone and returned without error, over the
\* state it started from (pre) and the state it returns in.
C1_Scenario ==
  [][\A t \in Tasks : (ReturnsOk(t) /\ tasks[t].alone) =>
       LET r == tasks[t] IN
       /\ (r.kind = "play" /\ r.pre.current = None /\ r.pre.queue = <<>>)
            => (r.path \in Paths /\ current' = r.path /\ queue' = <<>>)
       /\ (r.kind = "play" /\ r.pre.current # None /\ r.pre.queue = <<>>)
            => (r.path \in Paths /\ current' = r.pre.current /\ queue' = <<r.path>>)
       /\ (r.kind = "skip" /\ r.pre.current # None /\ Len(r.pre.queue) = 1)
            => (current' = r.pre.queue[1] /\ queue' = <<>>)
       /\ (r.kind = "skip" /\ r.pre.queue = <<>>)
            => (current' = None /\ queue' = <<>>)
  ]_vars

\* C1 witness: a /skip that ran alone from current = A, pending = <<B>>,
\* A # B, has streamed B and is about to return.
C1_Witness ==
  \E t \in Tasks :
    /\ tasks[t].kind = "skip" /\ tasks[t].alone
    /\ tasks[t].pc = "reply" /\ tasks[t].res = "ok"
    /\ tasks[t].pre.current \in Paths
    /\ Len(tasks[t].pre.queue) = 1
    /\ tasks[t].pre.queue[1] # tasks[t].pre.current
    /\ current = tasks[t].pre.queue[1]
    /\ stream[tasks[t].chat] = current
    /\ queue = <<>>

\* C2: play order is enqueue order.  Every change of the queue is an append
\* at the tail, the removal of the head into current, or /stop's clear; and
\* current only ever becomes the head of the queue (or None).
C2_Fifo ==
  [][/\ queue' # queue =>
          \/ \E p \in Paths : queue' = Append(queue, p)
          \/ queue # <<>> /\ queue' = Tail(queue) /\ current' = Head(queue)
          \/ queue' = <<>> /\ \E t \in Tasks : ~Busy(t) /\ tasks'[t].kind = "stop"
     /\ current' # current =>
          \/ current' = None
          \/ queue # <<>> /\ current' = Head(queue) /\ queue' = Tail(queue)
  ]_vars

\* C2 witness: with two different paths pending, behind a playing one, a
\* /skip has taken the one appended first and left the other.
C2_Witness ==
  \E t \in Tasks :
    /\ tasks[t].kind = "skip" /\ tasks[t].alone /\ tasks[t].pc = "stream"
    /\ Len(tasks[t].pre.queue) = 2
    /\ tasks[t].pre.queue[1] # tasks[t].pre.queue[2]
    /\ tasks[t].pre.current \in Paths
    /\ current = tasks[t].pre.queue[1]
    /\ queue = <<tasks[t].pre.queue[2]>>

\* C3: when /stop has completed (run alone, transport call succeeded),
\* pending is empty, current is empty and the chat streams silence.
C3_StopLeavesIdle ==
  \A t \in Tasks :
    (tasks[t].kind = "stop" /\ tasks[t].alone
       /\ tasks[t].pc = "reply" /\ tasks[t].res = "ok")
    => (queue = <<>> /\ current = None /\ stream[tasks[t].chat] = Silence)

\* C4: the state /stop leaves is a fixed point of advance: _play_next
\* applied to it changes neither pending nor current.
C4_StopThenAdvanceSame ==
  \A t \in Tasks :
    (tasks[t].kind = "stop" /\ tasks[t].alone
       /\ tasks[t].pc = "reply" /\ tasks[t].res = "ok")
    => (PlayNextQueue(queue) = queue /\ PlayNextCurrent(queue, current) = current)

\* The entries of the queue q that chat d's /play commands put there (o: owners).
RECURSIVE PendingOf(_, _, _)
PendingOf(d, q, o) ==
  IF q = <<>> THEN <<>>
  ELSE (IF Head(o) = d THEN <<Head(q)>> ELSE <<>>) \o PendingOf(d, Tail(q), Tail(o))

\* The chat whose handler takes this step, if slot t takes it.
Actor(t) == IF tasks'[t].chat # 0 THEN tasks'[t].chat ELSE tasks[t].chat

\* C5: queues are per chat.  A step of a handler of chat d leaves the pending
\* entries of every other chat e as they are and hands the transport of d
\* only entries that d enqueued; and a /play for a chat that streams no
\* track and has nothing else pending starts streaming its path on that chat.
C5_PerDestination ==
  [][\A t \in Tasks : tasks'[t] # tasks[t] =>
       /\ \A e \in Dest \ {Actor(t)} :
            PendingOf(e, queue', owner') = PendingOf(e, queue, owner)
       /\ (Issues(t) /\ tasks'[t].src # Silence) => Head(owner) = Actor(t)
       /\ (PlayEdited(t) /\ stream[tasks[t].chat] \notin Paths
             /\ PendingOf(tasks[t].chat, queue, owner) = <<tasks[t].path>>)
            => (Issues(t) /\ tasks'[t].src = tasks[t].path)
  ]_vars

\* C6: whenever no queue handler is in progress, current is non-empty iff
\* some chat's call streams a track, and a streamed track is the one in current.
C6_CurrentIffStreaming ==
  Quiescent =>
    /\ (current # None) <=> (\E d \in Dest : stream[d] \in Paths)
    /\ \A d \in Dest : stream[d] \in Paths => stream[d] = current

\* C7: play and skip handlers interleave only at awaits, and the idle test
\* and the pop are in one step: a step that takes current from None to a path
\* issues exactly one transport call, for that path; a /play issues a call
\* only in a step that found current None; and every call for a track pops
\* that track off the head of the queue, so no entry is handed over twice.
C7_NoDoubleStart ==
  [][/\ Cardinality({t \in Tasks : Issues(t)}) <= 1
     /\ (current = None /\ current' # None) =>
          \E t \in Tasks : Issues(t) /\ tasks'[t].src = current'
     /\ \A t \in Tasks :
          /\ (Issues(t) /\ tasks'[t].kind = "play") => current = None
          /\ (Issues(t) /\ tasks'[t].src # Silence) =>
               /\ queue # <<>>
               /\ tasks'[t].src = Head(queue)
               /\ queue' = Tail(queue)
               /\ current' = Head(queue)
  ]_vars

\* C7 witness: two /play handlers interleaved: one found the queue idle and
\* started its track, the other has appended behind it and awaits its edit.
C7_Witness ==
  \E t, u \in Tasks :
    /\ t # u
    /\ tasks[t].kind = "play" /\ tasks[t].pc = "stream"
    /\ tasks[u].kind = "play" /\ tasks[u].pc = "edit"
    /\ current = tasks[t].src
    /\ Len(queue) = 1

\* C8: a /skip whose transport call failed leaves current empty.
C8_TransportErrorLeavesIdle ==
  \A t \in Tasks :
    (tasks[t].kind = "skip" /\ tasks[t].alone
       /\ tasks[t].pc = "reply" /\ tasks[t].res = "TransportError")
    => current = None

\* C9: /skip and /stop on an empty queue never fail because the queue is
\* empty.  No skip or stop handler catches the IndexError of a pop from an
\* empty list; a /skip started on an empty queue goes straight to its
\* "Skipped." with current None; a /stop started on an empty queue leaves
\* the queue empty and can only fail by its transport call.
C9_EmptyQueueNoError ==
  \A t \in Tasks :
    /\ tasks[t].kind \in {"skip", "stop"} => tasks[t].res # "IndexError"
    /\ (tasks[t].kind = "skip" /\ tasks[t].alone /\ tasks[t].pre.queue = <<>>)
         => (tasks[t].pc = "reply" /\ tasks[t].res = "ok"
               /\ queue = <<>> /\ current = None)
    /\ (tasks[t].kind = "stop" /\ tasks[t].alone /\ tasks[t].pre.queue = <<>>)
         => (queue = <<>> /\ current \in Paths \cup {None}
               /\ tasks[t].res \in {"", "ok", "TransportError"})

\* C9 witness: a /skip with nothing pending and a track in current has
\* completed: current is None and "Skipped." is being sent.
C9_Witness ==
  \E t \in Tasks :
    /\ tasks[t].kind = "skip" /\ tasks[t].alone
    /\ tasks[t].pre.queue = <<>> /\ tasks[t].pre.current \in Paths
    /\ tasks[t].pc = "reply" /\ tasks[t].res = "ok"
    /\ current = None

\* C10: at most POOL_SIZE jobs run at once; a job starts only when fewer
\* than POOL_SIZE run, and it is the oldest waiting one; and a handler can
\* always submit: with a free slot, /search is enabled whatever the pool holds.
C10_PoolBound ==
  /\ [](Cardinality(running) <= POOL_SIZE)
  /\ [](\A t \in Tasks : ~Busy(t) => ENABLED SearchStart(t, 1))
  /\ [][\A t \in Tasks :
          (tasks[t].pc = "job_queued" /\ tasks'[t].pc = "job_running")
          => (Cardinality(running) < POOL_SIZE /\ t = Head(poolQueue))
     ]_vars

\* C10 witness: POOL_SIZE jobs run and one more waits in the pool's queue.
C10_Witness ==
  /\ Cardinality(running) = POOL_SIZE
  /\ poolQueue # <<>>

\* The steps the program itself takes under NextPool: every step except the
\* outcome of the resolver work that runs on a POOL worker.
ProgramStepPool ==
  \/ \E t \in Tasks : SearchUsage(t, 1)
  \/ \E t \in Tasks : SearchStart(t, 1)
  \/ JobStart
  \/ \E t \in Tasks : SearchResult(t)
  \/ \E t \in Tasks : Replied(t)

\* C11: a job's future is resolved (as Failed(Timeout)) whether or not the
\* underlying work completes, so the awaiting handler always resumes: while
\* the work of handler t's job is still running, some step of the program
\* itself, not the completion of the work, takes t past its await.
C11_TimeoutResumes ==
  \A t \in Tasks :
    tasks[t].pc = "job_running"
      => ENABLED (ProgramStepPool /\ tasks'[t].pc # "job_running")

\* ------------------------------------------------- find_file_by_id alone
\* Ids and extensions for the directory listings find_file_by_id is applied
\* to: one id is a proper prefix of another, one shares no prefix.
LocIds == Ids \cup {<<"y">>}

\* "%(ext)s": mp3 with the audio options, the container's with the video ones
Exts == {"mp3", "webm"}

LocNames == {i \o <<".", e>> : i \in LocIds, e \in Exts}

\* Any id, any content of DOWNLOADS_DIR; slot 1 is about to call
\* find_file_by_id(vid).
InitLocate ==
  /\ queue = <<>>
  /\ owner = <<>>
  /\ current = None
  /\ files \in SUBSET LocNames
  /\ stream = [d \in Dest |-> None]
  /\ \E vid \in LocIds :
       tasks = [t \in Tasks |->
                  IF t = 1 THEN [FreeTask EXCEPT !.kind = "locate", !.pc = "call",
                                                 !.vid = vid]
                  ELSE FreeTask]
  /\ poolQueue = <<>>
  /\ running = {}

\* The loop reaches an entry that starts with vid: its joined path is returned.
LocateFound ==
  /\ tasks[1].kind = "locate" /\ tasks[1].pc = "call"
  /\ \E fp \in find_file_by_id(tasks[1].vid, files) :
       tasks' = [tasks EXCEPT ![1].pc = "return", ![1].path = fp]
  /\ UNCHANGED <<queue, owner, current, files, stream, poolQueue, running>>

\* No entry starts with vid: `return None`.
LocateNone ==
  /\ tasks[1].kind = "locate" /\ tasks[1].pc = "call"
  /\ find_file_by_id(tasks[1].vid, files) = {}
  /\ tasks' = [tasks EXCEPT ![1].pc = "return", ![1].path = None]
  /\ UNCHANGED <<queue, owner, current, files, stream, poolQueue, running>>

NextLocate ==
  \/ LocateFound
  \/ LocateNone

SpecLocate == InitLocate /\ [][NextLocate]_vars

\* The entries of dir named <vid>.<ext>.
NamedFor(vid, dir) == {f \in dir : \E e \in Exts : f = vid \o <<".", e>>}

\* C12: find_file_by_id(vid) returns the path of a file named <vid>.<ext>
\* when the directory holds one, and None when it holds none, whatever other
\* files (with names that merely begin with vid) the directory holds.
C12_LocateExact ==
  (tasks[1].kind = "locate" /\ tasks[1].pc = "return")
    => IF NamedFor(tasks[1].vid, files) # {}
         THEN tasks[1].path \in {JoinDir(f) : f \in NamedFor(tasks[1].vid, files)}
         ELSE tasks[1].path = None

\* What a handler reports after a stage failed: the resolver raised, the
\* result had no entry, the transport raised, the delivery (or another
\* message awaited inside the `try`) raised.
StageFailures == {"ExtractionError", "empty", "IndexError", "TransportError", "ChatError"}

\* C13: whatever stage fails in an orchestrator, no exception leaves the
\* handler: a handler reporting a stage failure never ends by raising.
C13_NoEscape ==
  \A t \in Tasks : ~(tasks[t].pc = "raised" /\ tasks[t].res \in StageFailures)

\* C14: /pause and /resume are no-ops on the controller: no step of a
\* pause or resume handler changes queue or current or what a chat's call
\* streams, and none issues a transport call.
C14_PauseResumeNoOp ==
  [][\A t \in Tasks :
       ((tasks[t].kind \in {"pause", "resume"} \/ tasks'[t].kind \in {"pause", "resume"})
        /\ tasks'[t] # tasks[t])
       => (queue' = queue /\ current' = current /\ stream' = stream
           /\ tasks'[t].pc # "stream")
  ]_vars

\* C14 witness: with a track playing and another pending, a /pause and a
\* /resume have both run and are about to return.
C14_Witness ==
  /\ current \in Paths /\ queue # <<>>
  /\ \E t, u \in Tasks :
       /\ tasks[t].kind = "pause" /\ tasks[t].pc = "reply"
       /\ tasks[u].kind = "resume" /\ tasks[u].pc = "reply"

\* C15: a track that ends by itself makes the program advance, so with no
\* /skip and no /stop and nothing failing every pending path gets played:
\* as long as a path is pending, the program or the transport has a step to
\* take (a handler continues, the playing track ends, the next one starts).
C15_PendingAdvances ==
  queue # <<>> => ENABLED ProgramStepAuto

\* C16: the first /play after a successful /stop finds the controller Idle
\* and starts its own path at once.  Stated for a /play that ran alone from
\* an empty queue and returns without error while its chat's call still
\* streams, or streamed until this very step, the silence a successful
\* /stop put there: it leaves current = its path, queue empty, and the call
\* streaming its path.
C16_PlayAfterStop ==
  [][\A t \in Tasks :
       (/\ ReturnsOk(t) /\ tasks[t].kind = "play" /\ tasks[t].alone
        /\ tasks[t].pre.queue = <<>>
        /\ stream[tasks[t].chat] = Silence)
       => (/\ tasks[t].path \in Paths
           /\ current' = tasks[t].path
           /\ queue' = <<>>
           /\ stream'[tasks[t].chat] = tasks[t].path)
  ]_vars

\* C17: a resolver failure reaches the user as a typed reason: when the
\* job of a run_yt handler is done and the handler reports, a result with
\* no entry is reported as NotFound and a raised extraction as
\* ExtractionError.
C17_TypedReasons ==
  [][\A t \in Tasks :
       (tasks[t].kind \in DlKinds \cup {"play"}
        /\ tasks[t].pc = "job_done" /\ tasks'[t].pc = "reply")
       => (/\ tasks[t].res = "empty" => tasks'[t].res = "NotFound"
           /\ tasks[t].res = "ExtractionError" => tasks'[t].res = "ExtractionError")
  ]_vars

\* C18: /video and /play hand a link to the resolver unchanged and put the
\* search directive only before a free-text argument: the target of every
\* job they submitted is the argument itself when it starts with "http",
\* and "ytsearch:" followed by the argument otherwise.
C18_UrlPassedUnchanged ==
  \A t \in Tasks :
    (tasks[t].kind \in {"video", "play"} /\ tasks[t].query # None)
      => tasks[t].target = IF StartsWith(tasks[t].query, <<"http">>)
                             THEN tasks[t].query
                             ELSE <<"ytsearch:">> \o tasks[t].query

\* What a /play reports when it failed before queue.append: the resolver
\* raised, the result had no entry, the downloaded file was not found.
FailedBeforeEnqueue == {"ExtractionError", "IndexError", "download_failed"}

\* C19: a /play that fails before enqueueing leaves queue and current as
\* they were and calls the transport not at all: the step in which it turns
\* from its finished job to the report changes none of queue, current and
\* stream, and a /play that ran alone and reports such a failure finds queue
\* and current as they were when it started, having issued no call.
C19_FailedPlayNoEffect ==
  /\ [](\A t \in Tasks :
          (tasks[t].kind = "play" /\ tasks[t].alone /\ tasks[t].pc = "reply"
           /\ tasks[t].res \in FailedBeforeEnqueue)
          => (queue = tasks[t].pre.queue /\ current = tasks[t].pre.current
              /\ tasks[t].src = None))
  /\ [][\A t \in Tasks :
          (tasks[t].kind = "play" /\ tasks[t].pc = "job_done" /\ tasks'[t].pc = "reply")
          => (queue' = queue /\ current' = current /\ stream' = stream)
     ]_vars

\* C19 witness: with a track playing and another pending, a /play that ran
\* alone found no downloaded file and is about to report it.
C19_Witness ==
  \E t \in Tasks :
    /\ tasks[t].kind = "play" /\ tasks[t].alone
    /\ tasks[t].pc = "reply" /\ tasks[t].res = "download_failed"
    /\ tasks[t].pre.current \in Paths
    /\ tasks[t].pre.queue # <<>>

\* How many entries of q are p.
Count(p, q) == Cardinality({i \in DOMAIN q : q[i] = p})

\* In this step a /play whose job succeeded appends the file p it located.
Appended(p) ==
  IF \E t \in Tasks :
       /\ tasks[t].kind = "play" /\ tasks[t].pc = "job_done" /\ tasks'[t].pc = "edit"
       /\ p \in find_file_by_id(tasks[t].vid, files)
       /\ queue' # <<>> /\ queue'[Len(queue')] = p
    THEN 1 ELSE 0

\* In this step handlers hand track p to the transport (_play_next).
Popped(p) ==
  Cardinality({t \in Tasks : Issues(t) /\ tasks'[t].kind # "stop" /\ tasks'[t].src = p})

\* C20: queued items are conserved under every interleaving of /play, /skip
\* and /stop.  In every step, for every path p: a /stop discards all pending
\* entries and places none in current; otherwise the entries p in the queue
\* change by exactly the appends of p by successful /play handlers minus the
\* entries p handed over to become current; an entry handed over was
\* pending, becomes current and is no longer counted in the queue; and
\* current changes only to None or to an entry handed over in that step.
C20_Conservation ==
  [][/\ \A p \in Paths :
          /\ IF \E t \in Tasks : ~Busy(t) /\ tasks'[t].kind = "stop"
               THEN queue' = <<>> /\ current' \in {current, None} /\ Popped(p) = 0
               ELSE Count(p, queue') + Popped(p) = Count(p, queue) + Appended(p)
          /\ Popped(p) <= Count(p, queue)
          /\ Popped(p) = 1 => current' = p
     /\ current' # current => (current' = None \/ Popped(current') = 1)
     /\ \A i \in DOMAIN queue' : queue'[i] \in Paths
  ]_vars

\* C20 witness: a /stop has discarded the pending entries and awaits its
\* transport call while a /play has appended a new entry behind it.
C20_Witness ==
  \E t, u \in Tasks :
    /\ tasks[t].kind = "stop" /\ tasks[t].pc = "stream"
    /\ tasks[u].kind = "play" /\ tasks[u].pc = "edit"
    /\ current \in Paths
    /\ Len(queue) = 1

====
